---- MODULE Spec2Model ----
(***************************************************************************)
(* A model of the b2b-data-miner lead pipeline: search discovery and URL   *)
(* scoring (src/src/discovery.py), extraction of contacts from a page      *)
(* (src/src/extractor.py), merging, confidence scoring and acceptance      *)
(* (src/src/evaluator.py) and the orchestrator run_company_intelligence    *)
(* (src/src/main.py).                                                      *)
(*                                                                         *)
(* Python strings are sequences of one-character strings, so that lower(), *)
(* replace(), split(), re.sub() and the substring test `in` are computed   *)
(* as Python computes them.  A role label is an atomic string: the code    *)
(* only copies it and tests it for emptiness.                              *)
(***************************************************************************)
EXTENDS Integers, Sequences, FiniteSets, TLC

VARIABLES
    pc,                 \* position of the run / of the function under study
    domain,             \* run_company_intelligence: the domain argument
    company_name,       \* run_company_intelligence: the company_name argument
    contacts,           \* merge_contacts: its argument
    merged,             \* merge_contacts: internal email_map, phone_map, groups
    unique_contacts,    \* merge_contacts: the list it returns
    remerged,           \* merge_contacts(M + copy of M)
    page,               \* one fetched page: what the regexes and the role scan find
    company_domain,     \* company_domain / target_domain argument
    page_contacts,      \* extract_contacts_from_page: the list it returns
    candidate,          \* one search result given to the candidate scorer
    score,              \* score_url_candidate: its return value
    fetch_ok,           \* should_fetch_url: its return value
    all_candidates,     \* discover_candidate_urls: results accumulated over queries
    candidates,         \* discover_candidate_urls: the list it returns
    contact,            \* calculate_contact_confidence: the contact dict
    evidence_urls,      \* calculate_contact_confidence: the evidence_urls argument
    fetch_candidates,   \* run_company_intelligence: candidates kept by the filter
    fetch_idx,          \* run_company_intelligence: position of the fetch loop
    all_contacts,       \* run_company_intelligence: accumulator of raw contacts
    merged_contacts,    \* run_company_intelligence: merge_contacts(all_contacts)
    accepted_contacts,  \* run_company_intelligence: contacts passing the threshold
    result,             \* run_company_intelligence: the returned structure
    fetch_log,          \* the calls of fetch_page on candidate pages, in call order
    queries,            \* generate_search_queries: the list it returns
    ppc,                \* position of _run_pipeline
    pl_candidates,      \* _run_pipeline: candidates
    cand_idx,           \* _run_pipeline: position of the candidate loop
    results             \* _run_pipeline: the returned structure

vars == <<pc, domain, company_name, contacts, merged, unique_contacts, remerged, page, company_domain,
          page_contacts, candidate, score, fetch_ok, all_candidates, candidates,
          contact, evidence_urls, fetch_candidates, fetch_idx, all_contacts,
          merged_contacts, accepted_contacts, result, fetch_log, queries, ppc,
          pl_candidates, cand_idx, results>>

mergeVars == <<contacts, merged, unique_contacts, remerged>>
extractVars == <<page, page_contacts>>
scoreVars == <<candidate, score, fetch_ok>>
discoverVars == <<all_candidates, candidates>>
confidenceVars == <<contact, evidence_urls>>
pipelineVars == <<ppc, pl_candidates, cand_idx, results>>
runVars == <<domain, company_name, fetch_candidates, fetch_idx, all_contacts, merged_contacts,
             accepted_contacts, result, fetch_log, queries, pipelineVars>>

\* The value of a variable that the specification at hand does not use.
Unused == "unused"

PipelineUnused ==
    ppc = Unused /\ pl_candidates = Unused /\ cand_idx = Unused /\ results = Unused

EnvUnused == fetch_log = Unused /\ queries = Unused /\ PipelineUnused

(***************************************************************************)
(* Python string operations                                                *)
(***************************************************************************)
Range(s) == {s[i] : i \in 1..Len(s)}

UpperAZ == <<"A","B","C","D","E","F","G","H","I","J","K","L","M",
             "N","O","P","Q","R","S","T","U","V","W","X","Y","Z">>
LowerAZ == <<"a","b","c","d","e","f","g","h","i","j","k","l","m",
             "n","o","p","q","r","s","t","u","v","w","x","y","z">>

LowerOf == [c \in Range(UpperAZ) |->
               LowerAZ[CHOOSE i \in 1..Len(UpperAZ) : UpperAZ[i] = c]]

\* str.lower() on one character
LowerChar(c) == IF c \in DOMAIN LowerOf THEN LowerOf[c] ELSE c

\* s.lower()
Lower(s) == [i \in 1..Len(s) |-> LowerChar(s[i])]

\* s[i-1:].startswith(t), positions counted from 1
StartsWithAt(s, t, i) ==
    /\ i + Len(t) - 1 <= Len(s)
    /\ SubSeq(s, i, i + Len(t) - 1) = t

\* t in s  (substring test; the empty string is in every string)
Contains(t, s) == \E i \in 1..(Len(s) - Len(t) + 1) : StartsWithAt(s, t, i)

\* s.replace(old, new): every non-overlapping occurrence, left to right
RECURSIVE ReplaceFrom(_, _, _, _)
ReplaceFrom(s, old, new, i) ==
    IF i > Len(s) THEN <<>>
    ELSE IF StartsWithAt(s, old, i)
         THEN new \o ReplaceFrom(s, old, new, i + Len(old))
         ELSE <<s[i]>> \o ReplaceFrom(s, old, new, i + 1)

Replace(s, old, new) == ReplaceFrom(s, old, new, 1)

\* position of the first occurrence of character c in s at or after i, 0 if none
RECURSIVE FindChar(_, _, _)
FindChar(s, c, i) ==
    IF i > Len(s) THEN 0
    ELSE IF s[i] = c THEN i ELSE FindChar(s, c, i + 1)

\* s.split('@')[1] for a string that holds an '@'
SplitAt1(s) ==
    LET a == FindChar(s, "@", 1)
        b == FindChar(s, "@", a + 1)
    IN  IF b = 0 THEN SubSeq(s, a + 1, Len(s)) ELSE SubSeq(s, a + 1, b - 1)

WwwDot == <<"w","w","w",".">>

\* x.lower().replace('www.', '')
CleanDomain(d) == Replace(Lower(d), WwwDot, <<>>)

\* list(set(...)): the elements of S in an order Python leaves unspecified
ListOfSet(S) ==
    IF S = {} THEN <<>>
    ELSE CHOOSE s \in [1..Cardinality(S) -> S] : Range(s) = S

(***************************************************************************)
(* normalize_phone and the same re.sub used inline by merge_contacts       *)
(***************************************************************************)
PhoneSeparators == {" ", "-", "(", ")"}

IsPhoneDigit(c) == c \notin PhoneSeparators

normalize_phone(phone) == SelectSeq(phone, IsPhoneDigit)

(***************************************************************************)
(* The strings the inputs are drawn from                                   *)
(***************************************************************************)
AtSign == <<"@">>
AcmeIo == <<"a","c","m","e",".","i","o">>                \* acme.io
WwwAcmeIo == <<"W","w","w",".">> \o AcmeIo               \* Www.acme.io
MailAcmeIo == <<"m","a","i","l",".">> \o AcmeIo          \* mail.acme.io
EvilIo == <<"e","v","i","l",".","i","o">>                \* evil.io
GmailComUp == <<"G","m","a","i","l",".","c","o","m">>    \* Gmail.com

EmailA == <<"a">> \o AtSign \o AcmeIo                    \* a@acme.io
EmailAUp == <<"A">> \o AtSign \o AcmeIo                  \* A@acme.io
EmailB == <<"b">> \o AtSign \o AcmeIo                    \* b@acme.io
EmailSub == <<"s">> \o AtSign \o MailAcmeIo              \* s@mail.acme.io
EmailEvil == <<"d">> \o AtSign \o EvilIo                 \* d@evil.io
EmailGmailUp == <<"C">> \o AtSign \o GmailComUp          \* C@Gmail.com

Phone1 == <<"5","5","5","0","1","0","0">>                \* 5550100
Phone1Dash == <<"5","5","5","-","0","1","0","0">>        \* 555-0100
Phone2 == <<"5","5","5","0","1","9","9">>                \* 5550199
PhoneZeros == <<"0","0","0","0","0","0","0">>            \* 0000000
PhoneOnes == <<"1","1","1","1","1","1","1">>             \* 1111111

Https == <<"h","t","t","p","s",":","/","/">>
UrlContact == Https \o AcmeIo \o <<"/","c">>             \* https://acme.io/c
UrlAbout == Https \o WwwAcmeIo \o <<"/","a">>            \* https://Www.acme.io/a
UrlEvil == Https \o EvilIo \o <<"/">>                    \* https://evil.io/

\* Every sequence over S of length at most n
SeqsUpTo(S, n) == UNION {[1..k -> S] : k \in 0..n}

(***************************************************************************)
(* merge_contacts (src/src/evaluator.py)                                   *)
(*                                                                         *)
(* The dicts of the code are shared objects: email_map and phone_map hold  *)
(* references to the group dicts.  groups is the heap of group dicts in    *)
(* creation order, and a map is the sequence of its (key, reference)       *)
(* entries in insertion order, which is the order of dict.values().        *)
(***************************************************************************)
EmptyMerge == [groups |-> <<>>, email_map |-> <<>>, phone_map |-> <<>>]

HasKey(map, k) == \E i \in 1..Len(map) : map[i].key = k

Lookup(map, k) == map[CHOOSE i \in 1..Len(map) : map[i].key = k].ref

\* The body of the loop `for contact in contacts` for one fragment c
MergeFragment(st, c) ==
    LET email == Lower(c.email)
        phone == IF c.phone # <<>> THEN normalize_phone(c.phone) ELSE c.phone
        ref == IF email # <<>> /\ HasKey(st.email_map, email)
                 THEN Lookup(st.email_map, email)
               ELSE IF phone # <<>> /\ HasKey(st.phone_map, phone)
                 THEN Lookup(st.phone_map, phone)
               ELSE 0
    IN  IF ref # 0
        THEN LET g == st.groups[ref]
                 urls == ListOfSet(Range(g.evidence_urls) \cup Range(c.evidence_urls))
                 g1 == [g EXCEPT !.evidence_urls = urls]
                 g2 == IF c.role # "" /\ g1.role = ""
                       THEN [g1 EXCEPT !.role = c.role] ELSE g1
                 g3 == IF email # <<>> /\ g2.email = <<>>
                       THEN [g2 EXCEPT !.email = email] ELSE g2
                 g4 == IF phone # <<>> /\ g3.phone = <<>>
                       THEN [g3 EXCEPT !.phone = phone] ELSE g3
             IN  [st EXCEPT !.groups[ref] = g4]
        ELSE LET new == Len(st.groups) + 1
             IN  [groups |-> Append(st.groups, c),
                  email_map |-> IF email # <<>>
                                THEN Append(st.email_map, [key |-> email, ref |-> new])
                                ELSE st.email_map,
                  phone_map |-> IF phone # <<>>
                                THEN Append(st.phone_map, [key |-> phone, ref |-> new])
                                ELSE st.phone_map]

RECURSIVE MergeLoop(_, _, _)
MergeLoop(st, cs, i) ==
    IF i > Len(cs) THEN st
    ELSE MergeLoop(MergeFragment(st, cs[i]), cs, i + 1)

\* The state of merge_contacts when its first loop ends
MergeState(cs) == MergeLoop(EmptyMerge, cs, 1)

\* key = (email, phone) of the second loop
ContactKey(c) == <<Lower(c.email), normalize_phone(c.phone)>>

RECURSIVE UniqueFrom(_, _, _)
UniqueFrom(cs, i, seen) ==
    IF i > Len(cs) THEN <<>>
    ELSE IF ContactKey(cs[i]) \notin seen
         THEN <<cs[i]>> \o UniqueFrom(cs, i + 1, seen \cup {ContactKey(cs[i])})
         ELSE UniqueFrom(cs, i + 1, seen)

\* all_contacts = list(email_map.values())
EmailMapValues(st) == [i \in 1..Len(st.email_map) |-> st.groups[st.email_map[i].ref]]

merge_contacts(cs) == UniqueFrom(EmailMapValues(MergeState(cs)), 1, {})

(***************************************************************************)
(* Ordering of strings, for sorted()                                       *)
(***************************************************************************)
\* The characters of EMAIL_REGEX, PHONE_REGEX and URLs, in code-point order
AsciiOrder == <<" ","%","(",")","+","-",".","/","0","1","2","3","4","5","6","7",
               "8","9",":","@","A","B","C","D","E","F","G","H","I","J","K","L",
               "M","N","O","P","Q","R","S","T","U","V","W","X","Y","Z","_","a",
               "b","c","d","e","f","g","h","i","j","k","l","m","n","o","p","q",
               "r","s","t","u","v","w","x","y","z">>

OrdOf == [c \in Range(AsciiOrder) |->
             CHOOSE i \in 1..Len(AsciiOrder) : AsciiOrder[i] = c]

\* ord(c)
Ord(c) == OrdOf[c]

\* s < t for Python strings
RECURSIVE StrLessFrom(_, _, _)
StrLessFrom(s, t, i) ==
    IF i > Len(s) THEN i <= Len(t)
    ELSE IF i > Len(t) THEN FALSE
    ELSE IF s[i] = t[i] THEN StrLessFrom(s, t, i + 1)
    ELSE Ord(s[i]) < Ord(t[i])

StrLess(s, t) == StrLessFrom(s, t, 1)

\* sorted(set(xs)) for a list of strings
RECURSIVE SortedOfSet(_)
SortedOfSet(S) ==
    IF S = {} THEN <<>>
    ELSE LET least == CHOOSE x \in S : \A y \in S \ {x} : StrLess(x, y)
         IN  <<least>> \o SortedOfSet(S \ {least})

\* s.strip()
RECURSIVE Strip(_)
Strip(s) ==
    IF s = <<>> THEN s
    ELSE IF Head(s) = " " THEN Strip(Tail(s))
    ELSE IF s[Len(s)] = " " THEN Strip(SubSeq(s, 1, Len(s) - 1))
    ELSE s

(***************************************************************************)
(* The page extractor (src/src/extractor.py)                               *)
(***************************************************************************)
PERSONAL_EMAIL_DOMAINS == {
    <<"g","m","a","i","l",".","c","o","m">>,
    <<"y","a","h","o","o",".","c","o","m">>,
    <<"h","o","t","m","a","i","l",".","c","o","m">>,
    <<"o","u","t","l","o","o","k",".","c","o","m">>,
    <<"y","a","h","o","o",".","c","o",".","i","n">>,
    <<"y","a","h","o","o",".","c","o",".","u","k">>,
    <<"h","o","t","m","a","i","l",".","c","o",".","u","k">>,
    <<"l","i","v","e",".","c","o","m">>,
    <<"m","s","n",".","c","o","m">>,
    <<"a","o","l",".","c","o","m">>,
    <<"i","c","l","o","u","d",".","c","o","m">>,
    <<"p","r","o","t","o","n","m","a","i","l",".","c","o","m">>,
    <<"m","a","i","l",".","c","o","m">>,
    <<"y","a","n","d","e","x",".","c","o","m">>,
    <<"z","o","h","o",".","c","o","m">>,
    <<"r","e","d","i","f","f","m","a","i","l",".","c","o","m">>,
    <<"r","e","d","i","f","f",".","c","o","m">>,
    <<"i","n","b","o","x",".","c","o","m">>,
    <<"g","m","x",".","c","o","m">>}

\* ROLE_KEYWORDS in the order of the dict: <<role_type, keywords>>
ROLE_KEYWORDS == <<
    [role_type |-> "pms", keywords |-> <<
        <<"p","o","r","t","f","o","l","i","o"," ","m","a","n","a","g","e","r">>,
        <<"p","o","r","t","f","o","l","i","o"," ","m","a","n","a","g","e","m","e","n","t">>,
        <<"p","m","s">>>>],
    [role_type |-> "insurance agent", keywords |-> <<
        <<"i","n","s","u","r","a","n","c","e"," ","a","g","e","n","t">>,
        <<"i","n","s","u","r","a","n","c","e"," ","a","d","v","i","s","o","r">>,
        <<"i","n","s","u","r","a","n","c","e"," ","c","o","n","s","u","l","t","a","n","t">>>>],
    [role_type |-> "ifa", keywords |-> <<
        <<"i","n","d","e","p","e","n","d","e","n","t"," ","f","i","n","a","n","c","i","a","l"," ","a","d","v","i","s","o","r">>,
        <<"i","f","a">>,
        <<"f","i","n","a","n","c","i","a","l"," ","a","d","v","i","s","o","r">>>>],
    [role_type |-> "mutual fund", keywords |-> <<
        <<"m","u","t","u","a","l"," ","f","u","n","d">>,
        <<"m","u","t","u","a","l"," ","f","u","n","d"," ","m","a","n","a","g","e","r">>,
        <<"a","m","c">>,
        <<"a","s","s","e","t"," ","m","a","n","a","g","e","m","e","n","t"," ","c","o","m","p","a","n","y">>>>],
    [role_type |-> "investment advisor", keywords |-> <<
        <<"i","n","v","e","s","t","m","e","n","t"," ","a","d","v","i","s","o","r">>,
        <<"i","n","v","e","s","t","m","e","n","t"," ","a","d","v","i","s","e","r">>>>]>>

is_business_email(email) ==
    IF email = <<>> \/ ~Contains(AtSign, email) THEN FALSE
    ELSE Lower(SplitAt1(email)) \notin PERSONAL_EMAIL_DOMAINS

is_valid_phone(phone) ==
    LET normalized == normalize_phone(phone)
        digits == Replace(normalized, <<"+">>, <<>>)
    IN  IF Len(normalized) < 7 THEN FALSE
        ELSE IF Replace(digits, <<"0">>, <<>>) = <<>> THEN FALSE
        ELSE IF Cardinality(Range(digits)) = 1 THEN FALSE
        ELSE TRUE

\* The loop of extract_emails over email_matches[i..], giving business_emails
RECURSIVE BusinessEmailsFrom(_, _, _)
BusinessEmailsFrom(email_matches, cdomain, i) ==
    IF i > Len(email_matches) THEN <<>>
    ELSE LET email_lower == Lower(email_matches[i])
             rest == BusinessEmailsFrom(email_matches, cdomain, i + 1)
         IN  IF ~is_business_email(email_lower) THEN rest
             ELSE IF cdomain # <<>>
                  THEN LET email_domain == SplitAt1(email_lower)
                           company_domain_clean == CleanDomain(cdomain)
                       IN  IF Contains(company_domain_clean, email_domain)
                              \/ Contains(email_domain, company_domain_clean)
                           THEN <<email_lower>> \o rest
                           ELSE rest
                  ELSE <<email_lower>> \o rest

\* extract_emails that only drops personal domains, whatever company_domain is
extract_emails_any_business(email_matches, cdomain) ==
    SortedOfSet(Range(BusinessEmailsFrom(email_matches, <<>>, 1)))

\* extract_emails, given EMAIL_REGEX.findall(html)
extract_emails(email_matches, cdomain) ==
    SortedOfSet(Range(BusinessEmailsFrom(email_matches, cdomain, 1)))

RECURSIVE ValidPhonesFrom(_, _)
ValidPhonesFrom(phone_matches, i) ==
    IF i > Len(phone_matches) THEN <<>>
    ELSE LET phone_clean == Strip(phone_matches[i])
             rest == ValidPhonesFrom(phone_matches, i + 1)
         IN  IF is_valid_phone(phone_clean)
             THEN <<normalize_phone(phone_clean)>> \o rest
             ELSE rest

\* extract_phones, given PHONE_REGEX.findall(html)
extract_phones(phone_matches) == SortedOfSet(Range(ValidPhonesFrom(phone_matches, 1)))

\* extract_explicit_role: the first role type, in dict order, one of whose
\* keywords is in the lower-cased text
extract_explicit_role(text) ==
    LET text_lower == Lower(text)
        hit(r) == \E k \in 1..Len(ROLE_KEYWORDS[r].keywords) :
                      Contains(ROLE_KEYWORDS[r].keywords[k], text_lower)
    IN  IF \E r \in 1..Len(ROLE_KEYWORDS) : hit(r)
        THEN ROLE_KEYWORDS[CHOOSE r \in 1..Len(ROLE_KEYWORDS) :
                               hit(r) /\ \A q \in 1..(r - 1) : ~hit(q)].role_type
        ELSE ""

NewContact(email, phone, role, url) ==
    [email |-> email, phone |-> phone, role |-> role, evidence_urls |-> <<url>>]

\* The contact assembly of extract_contacts_from_page with the pairing loop
\* stopping at the shorter list, so that excess emails are left out
AssemblePairedOnly(emails, phones, role, url) ==
    LET n == IF Len(emails) < Len(phones) THEN Len(emails) ELSE Len(phones)
    IN  IF emails # <<>> /\ phones # <<>>
        THEN [i \in 1..n |-> NewContact(emails[i], phones[i], role, url)]
             \o [j \in 1..(Len(phones) - n) |->
                    NewContact(<<>>, phones[n + j], role, url)]
        ELSE IF emails # <<>>
        THEN [i \in 1..Len(emails) |-> NewContact(emails[i], <<>>, role, url)]
        ELSE [i \in 1..Len(phones) |-> NewContact(<<>>, phones[i], role, url)]

\* extract_contacts_from_page lines 186-232: the records for the page's email
\* list, phone list and role
AssembleContacts(emails, phones, role, url) ==
    IF emails # <<>> /\ phones # <<>>
    THEN [i \in 1..Len(emails) |->
             NewContact(emails[i],
                        IF i <= Len(phones) THEN phones[i] ELSE <<>>,
                        role, url)]
         \o (IF Len(phones) > Len(emails)
             THEN [j \in 1..(Len(phones) - Len(emails)) |->
                      NewContact(<<>>, phones[Len(emails) + j], role, url)]
             ELSE <<>>)
    ELSE IF emails # <<>>
    THEN [i \in 1..Len(emails) |-> NewContact(emails[i], <<>>, role, url)]
    ELSE IF phones # <<>>
    THEN [i \in 1..Len(phones) |-> NewContact(<<>>, phones[i], role, url)]
    ELSE <<>>

\* extract_contacts_from_page emitting a role-only record when the page has a
\* role but neither email nor phone
extract_contacts_role_only(pg, url, cdomain) ==
    LET found == AssembleContacts(extract_emails(pg.email_matches, cdomain),
                                  extract_phones(pg.phone_matches),
                                  extract_explicit_role(pg.text), url)
    IN  IF found = <<>> /\ extract_explicit_role(pg.text) # ""
        THEN <<NewContact(<<>>, <<>>, extract_explicit_role(pg.text), url)>>
        ELSE found

\* extract_contacts_from_page, given what the regexes find in html and the text
\* of the page: pg = [email_matches, phone_matches, text]
extract_contacts_from_page(pg, url, cdomain) ==
    AssembleContacts(extract_emails(pg.email_matches, cdomain),
                     extract_phones(pg.phone_matches),
                     extract_explicit_role(pg.text), url)

(***************************************************************************)
(* The candidate scorer (src/src/discovery.py, src/src/evaluator.py)       *)
(***************************************************************************)
SchemeChars == Range(LowerAZ) \cup Range(UpperAZ)
               \cup {"0","1","2","3","4","5","6","7","8","9","+","-","."}

\* position of the first of the characters of cs in s at or after i, Len(s)+1 if none
RECURSIVE FindAny(_, _, _)
FindAny(s, cs, i) ==
    IF i > Len(s) THEN Len(s) + 1
    ELSE IF s[i] \in cs THEN i ELSE FindAny(s, cs, i + 1)

\* urlparse(url).netloc: after an optional scheme, the text between '//' and the
\* first of '/', '?', '#'
Netloc(url) ==
    LET colon == FindChar(url, ":", 1)
        hasScheme == /\ colon > 1
                     /\ url[1] \in Range(LowerAZ) \cup Range(UpperAZ)
                     /\ \A k \in 1..(colon - 1) : url[k] \in SchemeChars
        rest == IF hasScheme THEN SubSeq(url, colon + 1, Len(url)) ELSE url
    IN  IF StartsWithAt(rest, <<"/","/">>, 1)
        THEN SubSeq(rest, 3, FindAny(rest, {"/", "?", "#"}, 3) - 1)
        ELSE <<>>

CONTACT_KEYWORDS == {
    <<"c","o","n","t","a","c","t">>,
    <<"a","b","o","u","t">>,
    <<"l","e","a","d","e","r","s","h","i","p">>,
    <<"t","e","a","m">>,
    <<"m","a","n","a","g","e","m","e","n","t">>,
    <<"e","m","a","i","l">>,
    <<"p","h","o","n","e">>}

DISCOVERY_ROLE_KEYWORDS == {
    <<"p","m","s">>,
    <<"i","n","s","u","r","a","n","c","e"," ","a","g","e","n","t">>,
    <<"i","n","v","e","s","t","m","e","n","t"," ","a","d","v","i","s","o","r">>,
    <<"i","f","a">>,
    <<"m","u","t","u","a","l"," ","f","u","n","d">>,
    <<"p","o","r","t","f","o","l","i","o"," ","m","a","n","a","g","e","r">>}

KwEmail == <<"e","m","a","i","l">>
KwPhone == <<"p","h","o","n","e">>

\* score_url_candidate with the domain match as an additive bonus, not a gate
score_url_domain_bonus(cand, target_domain) ==
    LET combined_text == Lower(Lower(cand.title) \o <<" ">> \o Lower(cand.snippet))
        candidate_domain_clean == Replace(Lower(Netloc(Lower(cand.url))), WwwDot, <<>>)
        target_domain_clean == CleanDomain(target_domain)
    IN  (IF Contains(target_domain_clean, candidate_domain_clean)
            \/ Contains(candidate_domain_clean, target_domain_clean)
         THEN 30 ELSE 0)
        + (IF \E k \in CONTACT_KEYWORDS : Contains(k, combined_text) THEN 30 ELSE 0)
        + (IF Contains(KwEmail, combined_text) \/ Contains(KwPhone, combined_text)
              \/ Contains(AtSign, combined_text) THEN 40 ELSE 0)
        + (IF \E k \in DISCOVERY_ROLE_KEYWORDS : Contains(k, combined_text)
           THEN 40 ELSE 0)

score_url_candidate(cand, target_domain) ==
    LET url == Lower(cand.url)
        snippet == Lower(cand.snippet)
        title == Lower(cand.title)
        combined_text == Lower(title \o <<" ">> \o snippet)
        candidate_domain == Lower(Netloc(url))
        target_domain_clean == Replace(Lower(target_domain), WwwDot, <<>>)
        candidate_domain_clean == Replace(candidate_domain, WwwDot, <<>>)
    IN  IF /\ ~Contains(target_domain_clean, candidate_domain_clean)
           /\ ~Contains(candidate_domain_clean, target_domain_clean)
        THEN 0
        ELSE (IF \E k \in CONTACT_KEYWORDS : Contains(k, combined_text)
              THEN 30 ELSE 0)
             + (IF Contains(KwEmail, combined_text) \/ Contains(KwPhone, combined_text)
                   \/ Contains(AtSign, combined_text) THEN 40 ELSE 0)
             + (IF \E k \in DISCOVERY_ROLE_KEYWORDS : Contains(k, combined_text)
                THEN 40 ELSE 0)

URL_FETCH_THRESHOLD == 40

CONTACT_CONFIDENCE_THRESHOLD == 50

validate_domain_match(url, target_domain) ==
    LET url_domain == Replace(Lower(Netloc(url)), WwwDot, <<>>)
        target_clean == Replace(Lower(target_domain), WwwDot, <<>>)
    IN  Contains(target_clean, url_domain) \/ Contains(url_domain, target_clean)

\* should_fetch_url without the score threshold
should_fetch_url_any_score(cand, target_domain) ==
    validate_domain_match(cand.url, target_domain)

should_fetch_url(cand, target_domain) ==
    IF cand.relevance_score < URL_FETCH_THRESHOLD THEN FALSE
    ELSE IF ~validate_domain_match(cand.url, target_domain) THEN FALSE
    ELSE TRUE

(***************************************************************************)
(* generate_search_queries (src/src/discovery.py)                          *)
(***************************************************************************)
\* the replacement fields of str.format
DomainField == <<"{","d","o","m","a","i","n","}">>
CompanyNameField == <<"{","c","o","m","p","a","n","y","_","n","a","m","e","}">>

SEARCH_QUERIES == <<
    <<"s","i","t","e",":","{","d","o","m","a","i","n","}"," ","\"","c","o",
      "n","t","a","c","t"," ","u","s","\"">>,
    <<"s","i","t","e",":","{","d","o","m","a","i","n","}"," ","\"","r","e",
      "g","i","s","t","e","r","e","d"," ","o","f","f","i","c","e","\"">>,
    <<"s","i","t","e",":","{","d","o","m","a","i","n","}"," ","\"","e","m",
      "a","i","l","\"">>,
    <<"s","i","t","e",":","{","d","o","m","a","i","n","}"," ","\"","p","h",
      "o","n","e","\"">>,
    <<"s","i","t","e",":","{","d","o","m","a","i","n","}"," ","\"","a","b",
      "o","u","t"," ","u","s","\"">>,
    <<"s","i","t","e",":","{","d","o","m","a","i","n","}"," ","\"","m","a",
      "n","a","g","e","m","e","n","t"," ","c","o","m","m","i","t","t","e",
      "e","\"">>,
    <<"s","i","t","e",":","{","d","o","m","a","i","n","}"," ","\"","A","M",
      "F","I","\"">>,
    <<"\"","A","s","s","o","c","i","a","t","i","o","n"," ","o","f"," ","M",
      "u","t","u","a","l"," ","F","u","n","d","s"," ","i","n"," ","I","n",
      "d","i","a","\""," ","e","m","a","i","l">>,
    <<"\"","A","s","s","o","c","i","a","t","i","o","n"," ","o","f"," ","M",
      "u","t","u","a","l"," ","F","u","n","d","s"," ","i","n"," ","I","n",
      "d","i","a","\""," ","c","o","n","t","a","c","t">>>>

\* a company name is an atomic string; format() inserts it as one unit
NameChars(name) == IF name = "" THEN <<>> ELSE <<name>>

\* the loop over the templates, from template i on
RECURSIVE QueriesFrom(_, _, _)
QueriesFrom(dom, name, i) ==
    IF i > Len(SEARCH_QUERIES) THEN <<>>
    ELSE LET template == SEARCH_QUERIES[i]
             rest == QueriesFrom(dom, name, i + 1)
         IN  IF Contains(DomainField, template)
             THEN <<Replace(template, DomainField, dom)>> \o rest
             ELSE IF Contains(CompanyNameField, template)
                  THEN IF name # ""
                       THEN <<Replace(template, CompanyNameField, NameChars(name))>>
                            \o rest
                       ELSE rest
                  ELSE <<template>> \o rest

generate_search_queries(dom, name) == QueriesFrom(dom, name, 1)

(***************************************************************************)
(* discover_candidate_urls (src/src/discovery.py): deduplication by URL,   *)
(* scoring and the stable descending sort of the accumulated results       *)
(***************************************************************************)
Scored(cand, s) ==
    [url |-> cand.url, title |-> cand.title, snippet |-> cand.snippet,
     source |-> cand.source, relevance_score |-> s]

\* The deduplication loop over all[i..] with seen_urls = seen
RECURSIVE DedupFrom(_, _, _, _)
DedupFrom(all, cdomain, i, seen) ==
    IF i > Len(all) THEN <<>>
    ELSE IF all[i].url \notin seen
         THEN <<Scored(all[i], score_url_candidate(all[i], cdomain))>>
              \o DedupFrom(all, cdomain, i + 1, seen \cup {all[i].url})
         ELSE DedupFrom(all, cdomain, i + 1, seen)

\* a sort that puts x before the elements of equal score
InsertDescUnstable(sorted, x) ==
    LET k == Cardinality({j \in 1..Len(sorted) :
                             sorted[j].relevance_score > x.relevance_score})
    IN  SubSeq(sorted, 1, k) \o <<x>> \o SubSeq(sorted, k + 1, Len(sorted))

\* list.sort(key=relevance_score, reverse=True) is stable: x goes after every
\* element whose score is not smaller
InsertDesc(sorted, x) ==
    LET k == Cardinality({j \in 1..Len(sorted) :
                             sorted[j].relevance_score >= x.relevance_score})
    IN  SubSeq(sorted, 1, k) \o <<x>> \o SubSeq(sorted, k + 1, Len(sorted))

RECURSIVE SortDesc(_, _)
SortDesc(xs, n) ==
    IF n = 0 THEN <<>> ELSE InsertDesc(SortDesc(xs, n - 1), xs[n])

\* discover_candidate_urls, given the results accumulated over the queries
discover_candidate_urls(all, cdomain) ==
    LET deduplicated == DedupFrom(all, cdomain, 1, {})
    IN  SortDesc(deduplicated, Len(deduplicated))

(***************************************************************************)
(* The confidence scorer (src/src/evaluator.py)                            *)
(***************************************************************************)
\* an official-domain test by equality with the lower-cased company domain
EmailOnExactDomain(email, cdomain) ==
    LET email_domain == IF Contains(AtSign, email) THEN Lower(SplitAt1(email)) ELSE <<>>
    IN  email_domain = Lower(cdomain)

EmailOnOfficialDomain(email, cdomain) ==
    LET email_domain == IF Contains(AtSign, email) THEN Lower(SplitAt1(email)) ELSE <<>>
        company_domain_clean == Replace(Lower(cdomain), WwwDot, <<>>)
    IN  \/ Contains(company_domain_clean, email_domain)
        \/ Contains(email_domain, company_domain_clean)

\* a reason string; N is the number the f-string "Found on {N} pages" prints
Reason(text, n) == [text |-> text, N |-> n]

\* the signals of calculate_contact_confidence, in order: [points, reason]
ConfidenceSignals(c, urls, cdomain) ==
    (IF c.email # <<>> /\ EmailOnOfficialDomain(c.email, cdomain)
     THEN <<[points |-> 25, reason |-> Reason("Email on official domain", 0)]>>
     ELSE <<>>)
    \o (IF c.phone # <<>>
        THEN <<[points |-> 15, reason |-> Reason("Phone found on official site", 0)]>>
        ELSE <<>>)
    \o (IF c.role # ""
        THEN <<[points |-> 25, reason |-> Reason("Role explicitly stated", 0)]>>
        ELSE <<>>)
    \o (IF Len(urls) >= 2
        THEN <<[points |-> 20, reason |-> Reason("Found on N pages", Len(urls))]>>
        ELSE <<>>)
    \o (IF Len(urls) >= 2
        THEN <<[points |-> 15, reason |-> Reason("Cross-source confirmation", 0)]>>
        ELSE <<>>)

RECURSIVE SumPoints(_, _)
SumPoints(sig, n) == IF n = 0 THEN 0 ELSE SumPoints(sig, n - 1) + sig[n].points

\* a scorer whose second ">= 2 evidence URLs" signal is worth as much as the first
ConfidenceScoreDoubled(c, urls, cdomain) ==
    LET sig == ConfidenceSignals(c, urls, cdomain)
    IN  SumPoints(sig, Len(sig)) + (IF Len(urls) >= 2 THEN 5 ELSE 0)

\* a scorer that gives a phone the 25 points of an email
ConfidenceScorePhone25(c, urls, cdomain) ==
    LET sig == ConfidenceSignals(c, urls, cdomain)
    IN  SumPoints(sig, Len(sig)) + (IF c.phone # <<>> THEN 10 ELSE 0)

\* the value calculate_contact_confidence returns
ConfidenceScore(c, urls, cdomain) ==
    LET sig == ConfidenceSignals(c, urls, cdomain) IN SumPoints(sig, Len(sig))

\* the contact dict after calculate_contact_confidence
calculate_contact_confidence(c, urls, cdomain) ==
    LET sig == ConfidenceSignals(c, urls, cdomain)
    IN  [email |-> c.email, phone |-> c.phone, role |-> c.role,
         evidence_urls |-> c.evidence_urls,
         confidence |-> ConfidenceScore(c, urls, cdomain),
         confidence_reasons |-> [i \in 1..Len(sig) |-> sig[i].reason]]

\* acceptance with a strict comparison
should_accept_contact_strict(c) == c.confidence > CONTACT_CONFIDENCE_THRESHOLD

should_accept_contact(c) == c.confidence >= CONTACT_CONFIDENCE_THRESHOLD

(***************************************************************************)
(* Specification SpecMerge: merge_contacts on every bounded list of raw    *)
(* contacts, then on the result followed by a copy of the result.          *)
(***************************************************************************)
MaxContacts == 3

MergeEmails == {<<>>, EmailA, EmailAUp, EmailB}
MergePhones == {<<>>, Phone1, Phone1Dash}
MergeRoles == {"", "pms"}
MergeUrls == {UrlContact, UrlAbout}

\* RawContact: at least one of email / phone is non-empty, one evidence URL
RawContactPool ==
    {c \in [email : MergeEmails, phone : MergePhones, role : MergeRoles,
            evidence_urls : {<<u>> : u \in MergeUrls}] :
        c.email # <<>> \/ c.phone # <<>>}

InitMerge ==
    /\ EnvUnused
    /\ pc = "merge_call"
    /\ contacts \in SeqsUpTo(RawContactPool, MaxContacts)
    /\ merged = Unused
    /\ unique_contacts = Unused
    /\ remerged = Unused
    /\ page = Unused /\ page_contacts = Unused /\ company_domain = Unused
    /\ candidate = Unused /\ score = Unused /\ fetch_ok = Unused
    /\ all_candidates = Unused /\ candidates = Unused
    /\ contact = Unused /\ evidence_urls = Unused
    /\ domain = Unused /\ company_name = Unused
    /\ fetch_candidates = Unused /\ fetch_idx = Unused /\ all_contacts = Unused
    /\ merged_contacts = Unused /\ accepted_contacts = Unused /\ result = Unused

\* M = merge_contacts(L)
MergeCall ==
    /\ pc = "merge_call"
    /\ merged' = MergeState(contacts)
    /\ unique_contacts' = merge_contacts(contacts)
    /\ pc' = "merge_returned"
    /\ UNCHANGED <<contacts, remerged, company_domain>>
    /\ UNCHANGED <<extractVars, scoreVars, discoverVars, confidenceVars, runVars>>

\* merge_contacts(M + copy of M)
RemergeCall ==
    /\ pc = "merge_returned"
    /\ remerged' = merge_contacts(unique_contacts \o unique_contacts)
    /\ pc' = "remerge_returned"
    /\ UNCHANGED <<contacts, merged, unique_contacts, company_domain>>
    /\ UNCHANGED <<extractVars, scoreVars, discoverVars, confidenceVars, runVars>>

NextMerge == MergeCall \/ RemergeCall

SpecMerge == InitMerge /\ [][NextMerge]_vars

KeySet(cs) == {ContactKey(cs[i]) : i \in 1..Len(cs)}

EvidenceOf(cs, k) ==
    UNION {Range(cs[i].evidence_urls) : i \in {j \in 1..Len(cs) : ContactKey(cs[j]) = k}}

\* C1: merging the merged list M with itself returns records whose set of
\* (lower-cased email, normalized phone) keys is the key set of M, and for each
\* key the evidence_urls are the same set as in M.
C1_MergeIdempotent ==
    pc = "remerge_returned" =>
        /\ KeySet(remerged) = KeySet(unique_contacts)
        /\ \A k \in KeySet(unique_contacts) :
               EvidenceOf(remerged, k) = EvidenceOf(unique_contacts, k)

\* C2: no two distinct records returned by merge_contacts have the same non-empty
\* lower-cased email, and no two have the same non-empty normalized phone.
C2_SharedKeysUnified ==
    pc = "merge_returned" =>
        \A i, j \in 1..Len(unique_contacts) :
            i # j =>
                LET ki == ContactKey(unique_contacts[i])
                    kj == ContactKey(unique_contacts[j])
                IN  /\ ~(ki[1] # <<>> /\ ki[1] = kj[1])
                    /\ ~(ki[2] # <<>> /\ ki[2] = kj[2])

\* C3: every group created by merge_contacts (a fragment that matched no existing
\* group by email or by phone, with whatever was backfilled into it later) is a
\* record of the returned list.
C3_EveryGroupReturned ==
    pc = "merge_returned" =>
        \A g \in 1..Len(merged.groups) :
            \E i \in 1..Len(unique_contacts) : unique_contacts[i] = merged.groups[g]

(***************************************************************************)
(* Specification SpecExtract: extract_contacts_from_page on every bounded  *)
(* page and company domain.                                                *)
(***************************************************************************)
MaxEmailMatches == 2
MaxPhoneMatches == 2

TextNone == <<>>
TextPms == <<"O","u","r"," ","P","M","S">>               \* Our PMS
TextAmcIfa == <<"a","m","c"," ","i","f","a">>            \* amc ifa

EmailMatchPool == {EmailAUp, EmailB, EmailSub, EmailEvil, EmailGmailUp}
PhoneMatchPool == {Phone1Dash, Phone2, PhoneZeros, PhoneOnes}
TextPool == {TextNone, TextPms}
DomainPool == {<<>>, AcmeIo, WwwAcmeIo}

PagePool(urls) ==
    [url : urls,
     email_matches : SeqsUpTo(EmailMatchPool, MaxEmailMatches),
     phone_matches : SeqsUpTo(PhoneMatchPool, MaxPhoneMatches),
     text : TextPool]

InitExtract ==
    /\ EnvUnused
    /\ pc = "extract_call"
    /\ page \in PagePool({UrlContact})
    /\ company_domain \in DomainPool
    /\ page_contacts = Unused
    /\ contacts = Unused /\ merged = Unused /\ unique_contacts = Unused
    /\ remerged = Unused
    /\ candidate = Unused /\ score = Unused /\ fetch_ok = Unused
    /\ all_candidates = Unused /\ candidates = Unused
    /\ contact = Unused /\ evidence_urls = Unused
    /\ domain = Unused /\ company_name = Unused
    /\ fetch_candidates = Unused /\ fetch_idx = Unused /\ all_contacts = Unused
    /\ merged_contacts = Unused /\ accepted_contacts = Unused /\ result = Unused

ExtractCall ==
    /\ pc = "extract_call"
    /\ page_contacts' = extract_contacts_from_page(page, page.url, company_domain)
    /\ pc' = "extract_returned"
    /\ UNCHANGED <<page, company_domain>>
    /\ UNCHANGED <<mergeVars, scoreVars, discoverVars, confidenceVars, runVars>>

NextExtract == ExtractCall

SpecExtract == InitExtract /\ [][NextExtract]_vars

\* The page's email list E and phone list P
PageE == extract_emails(page.email_matches, company_domain)
PageP == extract_phones(page.phone_matches)

\* C4 as stated: with E and P non-empty and len(E) > len(P), exactly len(P)
\* records are emitted, E[i] paired with P[i], and no excess email is emitted.
C4_ExcessEmailsDropped ==
    pc = "extract_returned" =>
        LET E == PageE
            P == PageP
        IN  (P # <<>> /\ Len(E) > Len(P)) =>
                /\ Len(page_contacts) = Len(P)
                /\ \A i \in 1..Len(page_contacts) :
                       /\ page_contacts[i].email = E[i]
                       /\ page_contacts[i].phone = P[i]

\* C4 as amended: with E and P non-empty and len(E) > len(P), exactly len(E)
\* records are emitted; record i carries E[i], paired with P[i] while i is within
\* P, and the excess emails E[len(P)..] are emitted as email-only records.
C4_ExcessEmailsEmitted ==
    pc = "extract_returned" =>
        LET E == PageE
            P == PageP
        IN  (P # <<>> /\ Len(E) > Len(P)) =>
                /\ Len(page_contacts) = Len(E)
                /\ \A i \in 1..Len(E) :
                       /\ page_contacts[i].email = E[i]
                       /\ page_contacts[i].phone =
                              (IF i <= Len(P) THEN P[i] ELSE <<>>)

C4_Witness ==
    /\ pc = "extract_returned"
    /\ Len(page_contacts) = 2
    /\ page_contacts[2].phone = <<>>
    /\ Len(PageP) = 1
    /\ Len(PageE) = 2

\* C5: every record emitted by extract_contacts_from_page has a non-empty email
\* or a non-empty phone, and a page with no surviving email and no valid phone
\* emits no record, whatever its role.
C5_EmailOrPhone ==
    pc = "extract_returned" =>
        /\ \A i \in 1..Len(page_contacts) :
               page_contacts[i].email # <<>> \/ page_contacts[i].phone # <<>>
        /\ (PageE = <<>> /\ PageP = <<>>) => page_contacts = <<>>

C5_Witness ==
    /\ pc = "extract_returned"
    /\ page.email_matches # <<>>
    /\ page.phone_matches # <<>>
    /\ PageE = <<>>
    /\ PageP = <<>>
    /\ extract_explicit_role(page.text) # ""
    /\ page_contacts = <<>>

AllPersonal(email_matches) ==
    \A i \in 1..Len(email_matches) :
        Lower(SplitAt1(email_matches[i])) \in PERSONAL_EMAIL_DOMAINS

\* C6: no emitted record carries an email whose domain is in the personal
\* blocklist; with a non-empty company_domain every emitted email's domain
\* contains, or is contained in, the www-stripped lower-cased company domain; a
\* page whose only contact data is personal email and no phone emits no record.
C6_NoPersonalNoOffDomain ==
    pc = "extract_returned" =>
        /\ \A i \in 1..Len(page_contacts) :
               page_contacts[i].email # <<>> =>
                   LET email_domain == SplitAt1(page_contacts[i].email)
                       clean == Replace(Lower(company_domain), WwwDot, <<>>)
                   IN  /\ email_domain \notin PERSONAL_EMAIL_DOMAINS
                       /\ company_domain # <<>> =>
                              \/ Contains(clean, email_domain)
                              \/ Contains(email_domain, clean)
        /\ (AllPersonal(page.email_matches) /\ page.phone_matches = <<>>) =>
               page_contacts = <<>>

C6_Witness ==
    /\ pc = "extract_returned"
    /\ company_domain = WwwAcmeIo
    /\ page.email_matches = <<EmailGmailUp, EmailEvil>>
    /\ page.phone_matches = <<Phone2>>
    /\ Len(page_contacts) = 1
    /\ page_contacts[1].email = <<>>

\* the scenario of a page holding only a personal email and no phone
C6_PersonalOnlyPage ==
    /\ pc = "extract_returned"
    /\ page.email_matches = <<EmailGmailUp>>
    /\ page.phone_matches = <<>>
    /\ page_contacts = <<>>

(***************************************************************************)
(* Specification SpecScore: score_url_candidate and should_fetch_url on    *)
(* every bounded candidate and target domain.                              *)
(***************************************************************************)
UrlSub == Https \o MailAcmeIo \o <<"/","t">>             \* https://mail.acme.io/t
UrlBare == <<"h","t","t","p",":","/","/">> \o EvilIo \o <<"?","q">>   \* http://evil.io?q

TextEmail == <<"E","m","a","i","l"," ","u","s">>         \* Email us
TextTeam == <<"T","e","a","m">>                          \* Team
TextAtPms == <<"x","@","y"," ","p","m","s">>             \* x@y pms

ScoreUrlPool == {UrlContact, UrlAbout, UrlEvil, UrlSub, UrlBare}
ScoreTextPool == {TextNone, TextEmail, TextTeam, TextAtPms}
TargetPool == {AcmeIo, WwwAcmeIo, EvilIo}
StoredScorePool == {0, 30, 40, 110}

InitScore ==
    /\ EnvUnused
    /\ pc = "score_call"
    /\ candidate \in [url : ScoreUrlPool, title : ScoreTextPool,
                      snippet : ScoreTextPool, source : {"google", "duckduckgo"},
                      relevance_score : StoredScorePool]
    /\ company_domain \in TargetPool
    /\ score = Unused
    /\ fetch_ok = Unused
    /\ contacts = Unused /\ merged = Unused /\ unique_contacts = Unused
    /\ remerged = Unused /\ page = Unused /\ page_contacts = Unused
    /\ all_candidates = Unused /\ candidates = Unused
    /\ contact = Unused /\ evidence_urls = Unused
    /\ domain = Unused /\ company_name = Unused
    /\ fetch_candidates = Unused /\ fetch_idx = Unused /\ all_contacts = Unused
    /\ merged_contacts = Unused /\ accepted_contacts = Unused /\ result = Unused

ScoreCall ==
    /\ pc = "score_call"
    /\ score' = score_url_candidate(candidate, company_domain)
    /\ pc' = "should_fetch_call"
    /\ UNCHANGED <<candidate, fetch_ok, company_domain>>
    /\ UNCHANGED <<mergeVars, extractVars, discoverVars, confidenceVars, runVars>>

ShouldFetchCall ==
    /\ pc = "should_fetch_call"
    /\ fetch_ok' = should_fetch_url(candidate, company_domain)
    /\ pc' = "should_fetch_returned"
    /\ UNCHANGED <<candidate, score, company_domain>>
    /\ UNCHANGED <<mergeVars, extractVars, discoverVars, confidenceVars, runVars>>

NextScore == ScoreCall \/ ShouldFetchCall

SpecScore == InitScore /\ [][NextScore]_vars

\* Neither the www-stripped lower-cased host of the candidate URL nor the
\* www-stripped lower-cased target domain contains the other
NoDomainRelation(url, target) ==
    LET host == Replace(Lower(Netloc(url)), WwwDot, <<>>)
        goal == Replace(Lower(target), WwwDot, <<>>)
    IN  ~Contains(host, goal) /\ ~Contains(goal, host)

\* C7: when neither the candidate's host nor the target domain contains the other,
\* score_url_candidate returns exactly 0 and should_fetch_url returns false,
\* whatever the title, the snippet and the stored relevance score are.
C7_DomainGate ==
    (pc \in {"should_fetch_call", "should_fetch_returned"}
        /\ NoDomainRelation(candidate.url, company_domain)) =>
        /\ score = 0
        /\ pc = "should_fetch_returned" => fetch_ok = FALSE

C7_Witness ==
    /\ pc = "should_fetch_returned"
    /\ score = 0
    /\ fetch_ok = FALSE
    /\ NoDomainRelation(candidate.url, company_domain)
    /\ candidate.relevance_score = 110
    /\ candidate.title = TextAtPms
    /\ candidate.snippet = TextEmail

(***************************************************************************)
(* Specification SpecDiscover: discover_candidate_urls on every bounded    *)
(* list of accumulated search results.                                     *)
(***************************************************************************)
MaxResults == 3

SearchResult(url, title, snippet, source) ==
    [url |-> url, title |-> title, snippet |-> snippet, source |-> source]

SearchResultPool ==
    {SearchResult(UrlContact, TextNone, TextEmail, "google"),
     SearchResult(UrlContact, TextTeam, TextNone, "duckduckgo"),
     SearchResult(UrlAbout, TextTeam, TextNone, "google"),
     SearchResult(UrlAbout, TextNone, TextAtPms, "duckduckgo"),
     SearchResult(UrlSub, TextNone, TextEmail, "duckduckgo"),
     SearchResult(UrlSub, TextNone, TextNone, "google"),
     SearchResult(UrlEvil, TextNone, TextEmail, "google")}

InitDiscover ==
    /\ EnvUnused
    /\ pc = "discover_call"
    /\ all_candidates \in SeqsUpTo(SearchResultPool, MaxResults)
    /\ company_domain \in {AcmeIo, WwwAcmeIo}
    /\ candidates = Unused
    /\ contacts = Unused /\ merged = Unused /\ unique_contacts = Unused
    /\ remerged = Unused /\ page = Unused /\ page_contacts = Unused
    /\ candidate = Unused /\ score = Unused /\ fetch_ok = Unused
    /\ contact = Unused /\ evidence_urls = Unused
    /\ domain = Unused /\ company_name = Unused
    /\ fetch_candidates = Unused /\ fetch_idx = Unused /\ all_contacts = Unused
    /\ merged_contacts = Unused /\ accepted_contacts = Unused /\ result = Unused

DiscoverCall ==
    /\ pc = "discover_call"
    /\ candidates' = discover_candidate_urls(all_candidates, company_domain)
    /\ pc' = "discover_returned"
    /\ UNCHANGED <<all_candidates, company_domain>>
    /\ UNCHANGED <<mergeVars, extractVars, scoreVars, confidenceVars, runVars>>

NextDiscover == DiscoverCall

SpecDiscover == InitDiscover /\ [][NextDiscover]_vars

\* index of the first result with URL u in the accumulated list
FirstIndex(all, u) ==
    CHOOSE i \in 1..Len(all) : all[i].url = u /\ \A j \in 1..(i - 1) : all[j].url # u

\* C8: discover_candidate_urls returns each distinct URL exactly once, with the
\* title, snippet and source of its first occurrence and that occurrence's score;
\* the list is in non-increasing relevance_score order and candidates of equal
\* score keep their first-discovery order.
C8_DedupFirstWinsStableSort ==
    pc = "discover_returned" =>
        /\ \A u \in {all_candidates[i].url : i \in 1..Len(all_candidates)} :
               Cardinality({k \in 1..Len(candidates) : candidates[k].url = u}) = 1
        /\ \A k \in 1..Len(candidates) :
               /\ \E i \in 1..Len(all_candidates) : all_candidates[i].url = candidates[k].url
               /\ LET first == all_candidates[FirstIndex(all_candidates, candidates[k].url)]
                  IN  /\ candidates[k].title = first.title
                      /\ candidates[k].snippet = first.snippet
                      /\ candidates[k].source = first.source
                      /\ candidates[k].relevance_score =
                             score_url_candidate(first, company_domain)
        /\ \A k, l \in 1..Len(candidates) :
               k < l =>
                   /\ candidates[k].relevance_score >= candidates[l].relevance_score
                   /\ candidates[k].relevance_score = candidates[l].relevance_score =>
                          FirstIndex(all_candidates, candidates[k].url)
                              < FirstIndex(all_candidates, candidates[l].url)

C8_Witness ==
    /\ pc = "discover_returned"
    /\ Len(all_candidates) = 3
    /\ Len(candidates) = 2
    /\ all_candidates[1].url = all_candidates[3].url
    /\ all_candidates[1].snippet # all_candidates[3].snippet
    /\ candidates[1].relevance_score = candidates[2].relevance_score
    /\ candidates[1].relevance_score > 0

(***************************************************************************)
(* Specification SpecConfidence: calculate_contact_confidence on every     *)
(* bounded contact, evidence list and company domain.                      *)
(***************************************************************************)
MaxEvidence == 3

EmailNoAt == <<"n","o","n","e">>                         \* none

InitConfidence ==
    /\ EnvUnused
    /\ pc = "confidence_call"
    /\ contact \in [email : {<<>>, EmailA, EmailSub, EmailEvil, EmailNoAt},
                    phone : {<<>>, Phone1},
                    role : {"", "pms"},
                    evidence_urls : {<<UrlContact>>}]
    /\ evidence_urls \in SeqsUpTo({UrlContact, UrlAbout}, MaxEvidence)
    /\ company_domain \in DomainPool
    /\ score = Unused
    /\ contacts = Unused /\ merged = Unused /\ unique_contacts = Unused
    /\ remerged = Unused /\ page = Unused /\ page_contacts = Unused
    /\ candidate = Unused /\ fetch_ok = Unused
    /\ all_candidates = Unused /\ candidates = Unused
    /\ domain = Unused /\ company_name = Unused
    /\ fetch_candidates = Unused /\ fetch_idx = Unused /\ all_contacts = Unused
    /\ merged_contacts = Unused /\ accepted_contacts = Unused /\ result = Unused

ConfidenceCall ==
    /\ pc = "confidence_call"
    /\ contact' = calculate_contact_confidence(contact, evidence_urls, company_domain)
    /\ score' = ConfidenceScore(contact, evidence_urls, company_domain)
    /\ pc' = "confidence_returned"
    /\ UNCHANGED <<evidence_urls, company_domain, candidate, fetch_ok>>
    /\ UNCHANGED <<mergeVars, extractVars, discoverVars, runVars>>

NextConfidence == ConfidenceCall

SpecConfidence == InitConfidence /\ [][NextConfidence]_vars

\* C9: calculate_contact_confidence returns an integer between 0 and 100 and
\* stores that same value in contact['confidence']; 100 is not exceeded when both
\* ">= 2 evidence URLs" signals fire together with all the other signals.
C9_ConfidenceRange ==
    pc = "confidence_returned" =>
        /\ score \in 0..100
        /\ contact.confidence = score

C9_Witness ==
    /\ pc = "confidence_returned"
    /\ Len(evidence_urls) >= 2
    /\ Len(contact.confidence_reasons) = 5
    /\ score = 100
    /\ contact.confidence = 100

\* the contact's email matches the company domain: the part after '@' and the
\* www-stripped, lower-cased domain, one a substring of the other
HasOnDomainEmail(c, cdomain) ==
    c.email # <<>> /\ EmailOnOfficialDomain(c.email, cdomain)

C18_RejectedWithoutRole ==
    /\ pc = "confidence_returned"
    /\ Len(evidence_urls) = 1
    /\ contact.email = EmailA /\ contact.role = "" /\ contact.phone # <<>>
    /\ contact.confidence = 40
    /\ ~should_accept_contact(contact)

(***************************************************************************)
(* Specification Spec: one run of run_company_intelligence                 *)
(* (src/src/main.py).  pc is the stage in progress; the search results and *)
(* what each page fetch returns are the inputs of the run.                 *)
(***************************************************************************)
\* What fetch_page returns: no content (None), or the html of a page, given by
\* what the extractor's regexes, role scan and title scan find in it
NoContent ==
    [ok |-> FALSE, email_matches |-> <<>>, phone_matches |-> <<>>,
     text |-> <<>>, name |-> ""]

Html(email_matches, phone_matches, text, name) ==
    [ok |-> TRUE, email_matches |-> email_matches, phone_matches |-> phone_matches,
     text |-> text, name |-> name]

FetchOutcomes ==
    {NoContent,
     Html(<<EmailAUp>>, <<>>, TextPms, "Acme"),
     Html(<<EmailAUp>>, <<Phone1Dash>>, TextNone, ""),
     Html(<<EmailB>>, <<Phone1Dash>>, TextNone, "Acme"),
     Html(<<EmailGmailUp, EmailEvil>>, <<Phone1Dash, Phone2>>, TextAmcIfa, "")}

\* the search results a run can meet
RunSearchPool ==
    {SearchResult(UrlContact, TextNone, TextEmail, "google"),
     SearchResult(UrlContact, TextTeam, TextNone, "duckduckgo"),
     SearchResult(UrlAbout, TextNone, TextAtPms, "duckduckgo"),
     SearchResult(UrlSub, TextNone, TextEmail, "duckduckgo"),
     SearchResult(UrlEvil, TextNone, TextEmail, "google")}

DomainArgPool == {AcmeIo, Https \o WwwAcmeIo}
CompanyNamePool == {"", "Acme Corp"}

\* extract_company_name, given the name its title / h1 scan finds in the html
extract_company_name(html) == html.name

EmptyMeta ==
    [candidates_discovered |-> 0, urls_fetched |-> 0, contacts_extracted |-> 0,
     contacts_accepted |-> 0, discovery_urls |-> <<>>, fetch_urls |-> <<>>]

Init ==
    /\ fetch_log = <<>> /\ queries = Unused /\ PipelineUnused
    /\ pc = "INIT"
    /\ domain \in DomainArgPool
    /\ company_name \in CompanyNamePool
    /\ company_domain = Unused
    /\ all_candidates = Unused /\ candidates = Unused
    /\ fetch_candidates = Unused /\ fetch_idx = Unused /\ all_contacts = Unused
    /\ merged_contacts = Unused /\ accepted_contacts = Unused /\ result = Unused
    /\ page = Unused /\ page_contacts = Unused
    /\ contacts = Unused /\ merged = Unused /\ unique_contacts = Unused
    /\ remerged = Unused
    /\ candidate = Unused /\ score = Unused /\ fetch_ok = Unused
    /\ contact = Unused /\ evidence_urls = Unused

idleVars == <<mergeVars, scoreVars, confidenceVars, pipelineVars>>

\* main.py 92-108: company_domain and the empty result
Initialize ==
    /\ pc = "INIT"
    /\ LET netloc == Netloc(IF StartsWithAt(domain, <<"h","t","t","p">>, 1)
                            THEN domain ELSE Https \o domain)
       IN  company_domain' = IF netloc # <<>> THEN netloc ELSE domain
    /\ result' = [company_name |-> company_name, company_domain |-> company_domain',
                  contacts |-> <<>>, meta |-> EmptyMeta]
    /\ pc' = "DISCOVER"
    /\ UNCHANGED <<domain, company_name, all_candidates, candidates, fetch_candidates,
                   fetch_idx, all_contacts, merged_contacts, accepted_contacts,
                   page, page_contacts, fetch_log, queries, idleVars>>

\* main.py 112-114: discover_candidate_urls (discovery.py 210-239) over the
\* results the searches for its queries return
Discover ==
    /\ pc = "DISCOVER"
    /\ queries' = generate_search_queries(company_domain, company_name)
    /\ \E all \in SeqsUpTo(RunSearchPool, MaxResults) :
           /\ all_candidates' = all
           /\ candidates' = discover_candidate_urls(all, company_domain)
    /\ result' = [result EXCEPT
                      !.meta.candidates_discovered = Len(candidates'),
                      !.meta.discovery_urls =
                          [i \in 1..Len(candidates') |-> candidates'[i].url]]
    /\ pc' = "FILTER"
    /\ UNCHANGED <<domain, company_name, company_domain, fetch_candidates, fetch_idx,
                   all_contacts, merged_contacts, accepted_contacts,
                   page, page_contacts, fetch_log, idleVars>>

\* [c for c in cs if should_fetch_url(c, target)]
RECURSIVE FetchWorthyFrom(_, _, _)
FetchWorthyFrom(cs, target, i) ==
    IF i > Len(cs) THEN <<>>
    ELSE IF should_fetch_url(cs[i], target)
         THEN <<cs[i]>> \o FetchWorthyFrom(cs, target, i + 1)
         ELSE FetchWorthyFrom(cs, target, i + 1)

\* main.py 117-125: the fetch-worthy candidates
Filter ==
    /\ pc = "FILTER"
    /\ fetch_candidates' = FetchWorthyFrom(candidates, company_domain, 1)
    /\ result' = [result EXCEPT
                      !.meta.urls_fetched = Len(fetch_candidates'),
                      !.meta.fetch_urls =
                          [i \in 1..Len(fetch_candidates') |-> fetch_candidates'[i].url]]
    /\ all_contacts' = <<>>
    /\ fetch_idx' = 1
    /\ pc' = "FETCH_EXTRACT"
    /\ UNCHANGED <<domain, company_name, company_domain, all_candidates, candidates,
                   merged_contacts, accepted_contacts, page, page_contacts,
                   fetch_log, queries, idleVars>>

\* one call of fetch_page on a candidate page, as the collaborator sees it
FetchCall(url, js_render, stage) ==
    [url |-> url, js_render |-> js_render, stage |-> stage,
     returned |-> FALSE, html |-> NoContent]

\* the call when it has returned html
Returned(call, html) == [call EXCEPT !.returned = TRUE, !.html = html]

\* a loop that never waits for the call it has made
NeverAwaiting(log) == FALSE

\* a coroutine suspended at `await fetch_page(...)`: its call has not returned
Awaiting(log) == log # <<>> /\ ~log[Len(log)].returned

\* a run in which a page without content still contributes a (blank) contact
PageContactsBlankOnNone(html, url, cdomain) ==
    IF html.ok THEN extract_contacts_from_page(html, url, cdomain)
    ELSE <<NewContact(<<>>, <<>>, "", url)>>

\* process_candidate_url 42-46: the contacts a fetched page contributes
PageContacts(html, url, cdomain) ==
    IF html.ok THEN extract_contacts_from_page(html, url, cdomain) ELSE <<>>

\* main.py 128-129 and process_candidate_url 36-41: the loop takes the next
\* candidate and calls fetch_page on its URL
ProcessCandidateFetch ==
    /\ pc = "FETCH_EXTRACT"
    /\ ~Awaiting(fetch_log)
    /\ fetch_idx <= Len(fetch_candidates)
    /\ LET url == fetch_candidates[fetch_idx].url
       IN  IF url = <<>>
           THEN fetch_idx' = fetch_idx + 1 /\ UNCHANGED fetch_log
           ELSE /\ fetch_log' = Append(fetch_log, FetchCall(url, TRUE, pc))
                /\ UNCHANGED fetch_idx
    /\ UNCHANGED <<pc, domain, company_name, company_domain, all_candidates, candidates,
                   fetch_candidates, all_contacts, merged_contacts, accepted_contacts,
                   result, page, page_contacts, queries, idleVars>>

\* process_candidate_url 41-49: fetch_page returns, the page's contacts are
\* extracted and appended to all_contacts, and the loop moves on
ProcessCandidate ==
    /\ pc = "FETCH_EXTRACT"
    /\ Awaiting(fetch_log)
    /\ \E html \in FetchOutcomes :
           LET url == fetch_candidates[fetch_idx].url
           IN  /\ fetch_log' = [fetch_log EXCEPT
                                    ![Len(fetch_log)] = Returned(@, html)]
               /\ page' = html
               /\ page_contacts' = PageContacts(html, url, company_domain)
               /\ all_contacts' = all_contacts \o page_contacts'
    /\ fetch_idx' = fetch_idx + 1
    /\ UNCHANGED <<pc, domain, company_name, company_domain, all_candidates, candidates,
                   fetch_candidates, merged_contacts, accepted_contacts, result,
                   queries, idleVars>>

\* a run that goes from the fetch loop straight to scoring, merging on the way
EndFetchSkipsMerge ==
    /\ pc = "FETCH_EXTRACT"
    /\ ~Awaiting(fetch_log)
    /\ fetch_idx > Len(fetch_candidates)
    /\ result' = [result EXCEPT !.meta.contacts_extracted = Len(all_contacts)]
    /\ merged_contacts' = merge_contacts(all_contacts)
    /\ pc' = "SCORE"
    /\ UNCHANGED <<domain, company_name, company_domain, all_candidates, candidates,
                   fetch_candidates, fetch_idx, all_contacts,
                   accepted_contacts, page, page_contacts, fetch_log, queries,
                   idleVars>>

\* main.py 131: the loop has ended
EndFetch ==
    /\ pc = "FETCH_EXTRACT"
    /\ ~Awaiting(fetch_log)
    /\ fetch_idx > Len(fetch_candidates)
    /\ result' = [result EXCEPT !.meta.contacts_extracted = Len(all_contacts)]
    /\ pc' = "MERGE"
    /\ UNCHANGED <<domain, company_name, company_domain, all_candidates, candidates,
                   fetch_candidates, fetch_idx, all_contacts, merged_contacts,
                   accepted_contacts, page, page_contacts, fetch_log, queries,
                   idleVars>>

\* main.py 134
Merge ==
    /\ pc = "MERGE"
    /\ merged_contacts' = merge_contacts(all_contacts)
    /\ pc' = "SCORE"
    /\ UNCHANGED <<domain, company_name, company_domain, all_candidates, candidates,
                   fetch_candidates, fetch_idx, all_contacts, accepted_contacts,
                   result, page, page_contacts, fetch_log, queries, idleVars>>

\* [c for c in cs if should_accept_contact(c)]
RECURSIVE AcceptedFrom(_, _)
AcceptedFrom(cs, i) ==
    IF i > Len(cs) THEN <<>>
    ELSE IF should_accept_contact(cs[i])
         THEN <<cs[i]>> \o AcceptedFrom(cs, i + 1)
         ELSE AcceptedFrom(cs, i + 1)

\* main.py 137-146: every merged contact is scored in place, then filtered
Score ==
    /\ pc = "SCORE"
    /\ merged_contacts' =
           [i \in 1..Len(merged_contacts) |->
               calculate_contact_confidence(merged_contacts[i],
                                            merged_contacts[i].evidence_urls,
                                            company_domain)]
    /\ accepted_contacts' = AcceptedFrom(merged_contacts', 1)
    /\ result' = [result EXCEPT !.meta.contacts_accepted = Len(accepted_contacts')]
    /\ pc' = "NAME_RESOLVE"
    /\ UNCHANGED <<domain, company_name, company_domain, all_candidates, candidates,
                   fetch_candidates, fetch_idx, all_contacts, page, page_contacts,
                   fetch_log, queries, idleVars>>

\* a formatting that loses the confidence reasons
FormatContactNoReasons(c) ==
    [email |-> c.email, phone |-> c.phone, role |-> c.role,
     confidence |-> c.confidence, confidence_reasons |-> <<>>,
     evidence_urls |-> c.evidence_urls]

\* main.py 160-167
FormatContact(c) ==
    [email |-> c.email, phone |-> c.phone, role |-> c.role,
     confidence |-> c.confidence, confidence_reasons |-> c.confidence_reasons,
     evidence_urls |-> c.evidence_urls]

\* main.py 149-172: the company name from the first fetch candidate's page, the
\* formatted contacts, and the return
NameResolve ==
    /\ pc = "NAME_RESOLVE"
    /\ \E html \in FetchOutcomes :
           LET name == IF fetch_candidates # <<>> /\ html.ok
                          /\ extract_company_name(html) # ""
                       THEN extract_company_name(html)
                       ELSE result.company_name
           IN  /\ result' = [result EXCEPT
                                 !.company_name = name,
                                 !.contacts = [i \in 1..Len(accepted_contacts) |->
                                                  FormatContact(accepted_contacts[i])]]
               /\ fetch_log' =
                      IF fetch_candidates # <<>>
                      THEN Append(fetch_log,
                                  Returned(FetchCall(fetch_candidates[1].url, TRUE, pc),
                                           html))
                      ELSE fetch_log
    /\ pc' = "DONE"
    /\ UNCHANGED <<domain, company_name, company_domain, all_candidates, candidates,
                   fetch_candidates, fetch_idx, all_contacts, merged_contacts,
                   accepted_contacts, page, page_contacts, queries, idleVars>>

Next ==
    \/ Initialize
    \/ Discover
    \/ Filter
    \/ ProcessCandidateFetch
    \/ ProcessCandidate
    \/ EndFetch
    \/ Merge
    \/ Score
    \/ NameResolve

Spec == Init /\ [][Next]_vars

\* The start of a run, with every local of run_company_intelligence holding an
\* empty value of its type until the run assigns it.
InitLive ==
    /\ fetch_log = <<>> /\ queries = <<>> /\ PipelineUnused
    /\ pc = "INIT"
    /\ domain \in DomainArgPool
    /\ company_name \in CompanyNamePool
    /\ company_domain = <<>>
    /\ all_candidates = <<>> /\ candidates = <<>>
    /\ fetch_candidates = <<>> /\ fetch_idx = 0 /\ all_contacts = <<>>
    /\ merged_contacts = <<>> /\ accepted_contacts = <<>>
    /\ result = [company_name |-> "", company_domain |-> <<>>,
                 contacts |-> <<>>, meta |-> EmptyMeta]
    /\ page = NoContent /\ page_contacts = <<>>
    /\ contacts = Unused /\ merged = Unused /\ unique_contacts = Unused
    /\ remerged = Unused
    /\ candidate = Unused /\ score = Unused /\ fetch_ok = Unused
    /\ contact = Unused /\ evidence_urls = Unused

\* What every step of Next does to the position of the run: a stage hands over
\* to another, the fetch loop calls fetch_page, or fetch_page returns and the
\* loop moves to the next candidate.  A stage computes without waiting for
\* anything but fetch_page.
Resume ==
    \/ pc \in {"INIT", "DISCOVER", "FILTER", "MERGE", "SCORE", "NAME_RESOLVE"}
          /\ pc' \in {"DISCOVER", "FILTER", "FETCH_EXTRACT", "MERGE", "SCORE",
                       "NAME_RESOLVE", "DONE"}
          /\ pc' # pc
          /\ UNCHANGED <<fetch_idx, fetch_log>>
    \/ pc = "FETCH_EXTRACT" /\ ~Awaiting(fetch_log)
          /\ fetch_idx > Len(fetch_candidates)
          /\ pc' = "MERGE"
          /\ UNCHANGED <<fetch_idx, fetch_log>>
    \/ pc = "FETCH_EXTRACT" /\ ~Awaiting(fetch_log)
          /\ fetch_idx <= Len(fetch_candidates)
          /\ fetch_log' = Append(fetch_log,
                                 FetchCall(fetch_candidates[fetch_idx].url, TRUE, pc))
          /\ UNCHANGED <<pc, fetch_idx>>

\* fetch_page returns content or none to the waiting loop
FetchReturns ==
    /\ pc = "FETCH_EXTRACT" /\ Awaiting(fetch_log)
    /\ fetch_idx' = fetch_idx + 1
    /\ UNCHANGED pc

\* The run is one coroutine that the event loop resumes whenever it can go on,
\* and every call of fetch_page returns (content or none).
SpecLive ==
    /\ InitLive /\ [][Next]_vars
    /\ WF_<<pc, fetch_idx, fetch_log>>(Resume)
    /\ WF_<<pc, fetch_idx>>(FetchReturns)

\* the merged contacts whose confidence is at least 50, from position i on
RECURSIVE AtLeast50From(_, _)
AtLeast50From(cs, i) ==
    IF i > Len(cs) THEN <<>>
    ELSE IF cs[i].confidence >= 50
         THEN <<cs[i]>> \o AtLeast50From(cs, i + 1)
         ELSE AtLeast50From(cs, i + 1)

RunRawContactsHaveEmailOrPhone ==
    pc \in {"FETCH_EXTRACT", "MERGE", "SCORE", "NAME_RESOLVE", "DONE"} =>
        \A i \in 1..Len(all_contacts) :
            all_contacts[i].email # <<>> \/ all_contacts[i].phone # <<>>

\* the calls of fetch_page the FETCH_EXTRACT loop has made, in call order
StageCalls(log, stage) == SelectSeq(log, LAMBDA c : c.stage = stage)

\* the contacts of the pages that returned content, in call order
RECURSIVE ContactsOfCalls(_, _, _)
ContactsOfCalls(calls, cdomain, n) ==
    IF n = 0 THEN <<>>
    ELSE ContactsOfCalls(calls, cdomain, n - 1)
         \o (IF calls[n].returned /\ calls[n].html.ok
             THEN extract_contacts_from_page(calls[n].html, calls[n].url, cdomain)
             ELSE <<>>)

\* C11: a page fetch that returns no content never aborts the run.  When the run
\* is DONE every filtered candidate has been fetched, the raw contacts are exactly
\* those of the pages that returned content (a page without content contributes
\* none), and meta.urls_fetched counts every candidate that passed the filter;
\* when every page fetch returned none, contacts = [], contacts_extracted = 0 and
\* contacts_accepted = 0.
C11_NoContentNeverAborts ==
    pc = "DONE" =>
        LET calls == StageCalls(fetch_log, "FETCH_EXTRACT")
        IN  /\ Len(calls) = Len(fetch_candidates)
            /\ \A i \in 1..Len(calls) :
                   calls[i].returned /\ calls[i].url = fetch_candidates[i].url
            /\ all_contacts = ContactsOfCalls(calls, company_domain, Len(calls))
            /\ result.meta.contacts_extracted = Len(all_contacts)
            /\ result.meta.urls_fetched =
                   Len(FetchWorthyFrom(candidates, company_domain, 1))
            /\ (\A i \in 1..Len(calls) : ~calls[i].html.ok) =>
                   /\ result.contacts = <<>>
                   /\ result.meta.contacts_extracted = 0
                   /\ result.meta.contacts_accepted = 0

\* a finished run whose first page fetch returned none and whose second page
\* gave contacts
C11_Witness ==
    /\ pc = "DONE"
    /\ Len(fetch_candidates) = 2
    /\ LET calls == StageCalls(fetch_log, "FETCH_EXTRACT")
       IN  /\ Len(calls) = 2
           /\ ~calls[1].html.ok
           /\ calls[2].html.ok
    /\ all_contacts # <<>>
    /\ result.meta.urls_fetched = 2

\* a finished run in which every one of two page fetches returned none
C11_AllNoneRun ==
    /\ pc = "DONE"
    /\ Len(fetch_candidates) = 2
    /\ \A i \in 1..Len(fetch_log) : ~fetch_log[i].html.ok
    /\ result.contacts = <<>>
    /\ result.meta.urls_fetched = 2

\* C12: in the FETCH_EXTRACT stage page fetches are issued one at a time, in the
\* order of the filtered candidates, which is non-increasing in relevance score:
\* the i-th call is for the i-th filtered candidate, a call is made only when
\* every earlier call has returned and its contacts are in the accumulator, at
\* most one call is outstanding, and when the stage is over every filtered
\* candidate has been fetched exactly once.
C12_SequentialFetch ==
    pc \in {"FETCH_EXTRACT", "MERGE", "SCORE", "NAME_RESOLVE", "DONE"} =>
        LET calls == StageCalls(fetch_log, "FETCH_EXTRACT")
        IN  /\ Cardinality({i \in 1..Len(fetch_log) : ~fetch_log[i].returned}) <= 1
            /\ Len(calls) <= Len(fetch_candidates)
            /\ \A i \in 1..Len(calls) :
                   /\ calls[i].url = fetch_candidates[i].url
                   /\ i < Len(calls) => calls[i].returned
            /\ all_contacts = ContactsOfCalls(calls, company_domain, Len(calls))
            /\ \A i, j \in 1..Len(fetch_candidates) :
                   i < j => fetch_candidates[i].relevance_score
                               >= fetch_candidates[j].relevance_score
            /\ pc # "FETCH_EXTRACT" =>
                   /\ Len(calls) = Len(fetch_candidates)
                   /\ \A i \in 1..Len(calls) : calls[i].returned

\* the second fetch is outstanding, the first page's contacts are accumulated,
\* and the first candidate scored higher than the second
C12_Witness ==
    /\ pc = "FETCH_EXTRACT"
    /\ Len(fetch_log) = 2
    /\ fetch_log[1].returned /\ fetch_log[1].html.ok
    /\ ~fetch_log[2].returned
    /\ all_contacts # <<>>
    /\ fetch_candidates[1].relevance_score > fetch_candidates[2].relevance_score

\* the stages of a run, in order
Stages ==
    <<"INIT", "DISCOVER", "FILTER", "FETCH_EXTRACT", "MERGE", "SCORE",
      "NAME_RESOLVE", "DONE">>

StageAfter(a, b) == \E i \in 1..(Len(Stages) - 1) : Stages[i] = a /\ Stages[i + 1] = b

\* C13: a run starts in INIT, every change of stage goes to the next stage of
\* INIT, DISCOVER, FILTER, FETCH_EXTRACT, MERGE, SCORE, NAME_RESOLVE, DONE (never
\* back, never skipping one), and, every fetch call returning content or none,
\* the run eventually reaches DONE.
C13_StagesInOrderToDone ==
    /\ pc = "INIT"
    /\ [][StageAfter(pc, pc')]_pc
    /\ <>(pc = "DONE" /\ result.contacts = [i \in 1..Len(accepted_contacts) |->
                                              FormatContact(accepted_contacts[i])])

\* a run that is DONE after three calls of fetch_page, two in the fetch loop (one
\* returned none) and one for the company name
C13_Witness ==
    /\ pc = "DONE"
    /\ Len(fetch_log) = 3
    /\ fetch_log[3].stage = "NAME_RESOLVE"
    /\ \E i \in 1..2 : ~fetch_log[i].html.ok
    /\ result.meta.candidates_discovered = 3

(***************************************************************************)
(* Specification SpecQueries: generate_search_queries on every bounded     *)
(* domain string and company name.                                         *)
(***************************************************************************)
MaxDomainLen == 3

QueryDomainPool == SeqsUpTo({"a", ".", "o"}, MaxDomainLen)

InitQueries ==
    /\ pc = "queries_call"
    /\ domain \in QueryDomainPool
    /\ company_name \in CompanyNamePool
    /\ queries = <<>>
    /\ fetch_log = Unused /\ PipelineUnused
    /\ company_domain = Unused
    /\ all_candidates = Unused /\ candidates = Unused
    /\ fetch_candidates = Unused /\ fetch_idx = Unused /\ all_contacts = Unused
    /\ merged_contacts = Unused /\ accepted_contacts = Unused /\ result = Unused
    /\ page = Unused /\ page_contacts = Unused
    /\ contacts = Unused /\ merged = Unused /\ unique_contacts = Unused
    /\ remerged = Unused
    /\ candidate = Unused /\ score = Unused /\ fetch_ok = Unused
    /\ contact = Unused /\ evidence_urls = Unused

QueriesCall ==
    /\ pc = "queries_call"
    /\ queries' = generate_search_queries(domain, company_name)
    /\ pc' = "queries_returned"
    /\ UNCHANGED <<domain, company_name, company_domain, fetch_log, pipelineVars,
                   fetch_candidates, fetch_idx, all_contacts, merged_contacts,
                   accepted_contacts, result, mergeVars, extractVars, scoreVars,
                   discoverVars, confidenceVars>>

NextQueries == QueriesCall

SpecQueries == InitQueries /\ [][NextQueries]_vars

SitePrefix == <<"s","i","t","e",":">>

\* a query made from a template with the {domain} field
IsDomainQuery(q) == StartsWithAt(q, SitePrefix, 1)

\* a query made from a template with the {company_name} field
IsCompanyNameQuery(q, name) == name # "" /\ name \in Range(q)

\* C14: generate_search_queries returns no domain-dependent (site:<domain>)
\* query when domain is empty or has no '.', and no company-name-dependent query
\* when company_name is empty.
C14_NoQueryWithoutItsInput ==
    pc = "queries_returned" =>
        /\ (domain = <<>> \/ "." \notin Range(domain)) =>
               \A i \in 1..Len(queries) : ~IsDomainQuery(queries[i])
        /\ company_name = "" =>
               \A i \in 1..Len(queries) :
                   \A name \in CompanyNamePool : ~IsCompanyNameQuery(queries[i], name)

\* the half of C14 about the company name
QueriesWithoutNameWhenNameEmpty ==
    pc = "queries_returned" /\ company_name = "" =>
        \A i \in 1..Len(queries) :
            \A name \in CompanyNamePool : ~IsCompanyNameQuery(queries[i], name)

OfficialDomainReason == Reason("Email on official domain", 0)

\* C17: in a run the email filter of extract_emails and the official-domain
\* test of calculate_contact_confidence agree: every scored merged contact with a
\* non-empty email has the "Email on official domain" reason and its 25 points,
\* so its confidence is at least 25.
C17_EmailAlwaysOfficial ==
    pc \in {"NAME_RESOLVE", "DONE"} =>
        \A i \in 1..Len(merged_contacts) :
            merged_contacts[i].email # <<>> =>
                /\ \E k \in 1..Len(merged_contacts[i].confidence_reasons) :
                       merged_contacts[i].confidence_reasons[k] = OfficialDomainReason
                /\ merged_contacts[i].confidence >= 25

\* a scored contact whose email was found upper-cased on a page that also held an
\* off-domain email, in a run on a www domain
C17_Witness ==
    /\ pc = "DONE"
    /\ company_domain = WwwAcmeIo
    /\ \E i \in 1..Len(fetch_log) :
           fetch_log[i].html.email_matches = <<EmailGmailUp, EmailEvil>>
    /\ \E i \in 1..Len(fetch_log) : fetch_log[i].html.email_matches = <<EmailAUp>>
    /\ \E i \in 1..Len(merged_contacts) :
           /\ merged_contacts[i].email = EmailA
           /\ merged_contacts[i].confidence_reasons[1] = OfficialDomainReason

(***************************************************************************)
(* Specification SpecPipeline: one run of _run_pipeline                    *)
(* (src/src/pipeline.py).  ppc is its position; contacts and merged are    *)
(* its locals of these names.                                              *)
(***************************************************************************)
mainVars ==
    <<pc, company_name, company_domain, candidates, fetch_candidates, fetch_idx,
      all_contacts, merged_contacts, accepted_contacts, result, page, page_contacts>>

pipelineIdle ==
    <<mainVars, domain, unique_contacts, remerged, scoreVars, confidenceVars>>

\* pipeline.py 23-29
PipelineStart ==
    /\ ppc = "P_INIT"
    /\ results' = [domain |-> domain, accepted_contacts |-> <<>>,
                   rejected_contacts |-> <<>>, fetched_urls |-> <<>>,
                   skipped_urls |-> <<>>]
    /\ ppc' = "P_DISCOVER"
    /\ UNCHANGED <<pl_candidates, cand_idx, contacts, merged, fetch_log,
                   all_candidates, queries, pipelineIdle>>

\* pipeline.py 33-35: discover_candidate_urls over the results the searches
\* return
PipelineDiscover ==
    /\ ppc = "P_DISCOVER"
    /\ queries' = generate_search_queries(domain, "")
    /\ \E all \in SeqsUpTo(RunSearchPool, MaxResults) :
           /\ all_candidates' = all
           /\ pl_candidates' = discover_candidate_urls(all, domain)
    /\ contacts' = <<>>
    /\ cand_idx' = 1
    /\ ppc' = "P_LOOP"
    /\ UNCHANGED <<results, merged, fetch_log, pipelineIdle>>

\* a run that keeps no record of a URL it does not fetch
RecordFetchedOnly(res, url, fetched) ==
    IF fetched
    THEN [res EXCEPT !.fetched_urls = Append(@, url)]
    ELSE res

\* pipeline.py 42, 47, 50: the URL goes to fetched_urls or to skipped_urls
RecordUrl(res, url, fetched) ==
    IF fetched
    THEN [res EXCEPT !.fetched_urls = Append(@, url)]
    ELSE [res EXCEPT !.skipped_urls = Append(@, url)]

\* pipeline.py 38-59, one turn of the loop: a candidate that is not fetch-worthy
\* is skipped; the page of another is fetched and, if it has content, its
\* contacts are extracted and appended
PipelineCandidate ==
    /\ ppc = "P_LOOP"
    /\ cand_idx <= Len(pl_candidates)
    /\ LET cand == pl_candidates[cand_idx]
           url == cand.url
       IN  IF ~should_fetch_url(cand, domain)
           THEN /\ results' = RecordUrl(results, url, FALSE)
                /\ UNCHANGED <<contacts, fetch_log>>
           ELSE \E html \in FetchOutcomes :
                    /\ fetch_log' = Append(fetch_log,
                                           Returned(FetchCall(url, FALSE, ppc), html))
                    /\ results' = RecordUrl(results, url, html.ok)
                    /\ contacts' = contacts \o PageContacts(html, url, domain)
    /\ cand_idx' = cand_idx + 1
    /\ UNCHANGED <<ppc, pl_candidates, merged, all_candidates, queries,
                   pipelineIdle>>

\* pipeline.py 62: the loop has ended
PipelineMerge ==
    /\ ppc = "P_LOOP"
    /\ cand_idx > Len(pl_candidates)
    /\ merged' = merge_contacts(contacts)
    /\ ppc' = "P_SCORE"
    /\ UNCHANGED <<results, pl_candidates, cand_idx, contacts, fetch_log,
                   all_candidates, queries, pipelineIdle>>

\* [c for c in cs if not should_accept_contact(c)]
RECURSIVE RejectedFrom(_, _)
RejectedFrom(cs, i) ==
    IF i > Len(cs) THEN <<>>
    ELSE IF ~should_accept_contact(cs[i])
         THEN <<cs[i]>> \o RejectedFrom(cs, i + 1)
         ELSE RejectedFrom(cs, i + 1)

\* pipeline.py 65-77: every merged contact is scored in place and goes to
\* accepted_contacts or to rejected_contacts
PipelineScore ==
    /\ ppc = "P_SCORE"
    /\ merged' = [i \in 1..Len(merged) |->
                     calculate_contact_confidence(merged[i], merged[i].evidence_urls,
                                                  domain)]
    /\ results' = [results EXCEPT
                       !.accepted_contacts = AcceptedFrom(merged', 1),
                       !.rejected_contacts = RejectedFrom(merged', 1)]
    /\ ppc' = "P_DONE"
    /\ UNCHANGED <<pl_candidates, cand_idx, contacts, fetch_log, all_candidates,
                   queries, pipelineIdle>>

PipelineDomainPool == DomainArgPool \cup {WwwAcmeIo}

InitPipeline ==
    /\ ppc = "P_INIT"
    /\ domain \in PipelineDomainPool
    /\ fetch_log = <<>>
    /\ pl_candidates = Unused /\ cand_idx = Unused /\ results = Unused
    /\ pc = Unused /\ company_name = Unused /\ queries = Unused
    /\ company_domain = Unused
    /\ all_candidates = Unused /\ candidates = Unused
    /\ fetch_candidates = Unused /\ fetch_idx = Unused /\ all_contacts = Unused
    /\ merged_contacts = Unused /\ accepted_contacts = Unused /\ result = Unused
    /\ page = Unused /\ page_contacts = Unused
    /\ contacts = Unused /\ merged = Unused /\ unique_contacts = Unused
    /\ remerged = Unused
    /\ candidate = Unused /\ score = Unused /\ fetch_ok = Unused
    /\ contact = Unused /\ evidence_urls = Unused

NextPipeline ==
    \/ PipelineStart
    \/ PipelineDiscover
    \/ PipelineCandidate
    \/ PipelineMerge
    \/ PipelineScore

SpecPipeline == InitPipeline /\ [][NextPipeline]_vars

\* the number of times x occurs in the list xs
Occurrences(xs, x) == Cardinality({k \in 1..Len(xs) : xs[k] = x})

\* fetch-worthy: the relevance score clears 40 and the host matches the target
FetchWorthy(cand, target) ==
    cand.relevance_score >= 40 /\ ~NoDomainRelation(cand.url, target)

\* the fetch of url returned content
FetchGaveContent(log, url) ==
    \E k \in 1..Len(log) : log[k].url = url /\ log[k].returned /\ log[k].html.ok

\* C16: at the end of _run_pipeline every discovered candidate URL is in exactly
\* one of fetched_urls and skipped_urls (a URL whose fetch returned no content is
\* skipped and the loop goes on to the remaining candidates), and it is in
\* fetched_urls if and only if it was fetch-worthy and its fetch returned
\* content.
C16_FetchedXorSkipped ==
    ppc \in {"P_SCORE", "P_DONE"} =>
        /\ \A i \in 1..Len(pl_candidates) :
               LET url == pl_candidates[i].url
               IN  /\ Occurrences(results.fetched_urls, url)
                         + Occurrences(results.skipped_urls, url) = 1
                   /\ Occurrences(results.fetched_urls, url) = 1
                         <=> (FetchWorthy(pl_candidates[i], domain)
                                 /\ FetchGaveContent(fetch_log, url))
        /\ Len(results.fetched_urls) + Len(results.skipped_urls) = Len(pl_candidates)

\* a finished run with a fetched URL, a fetch-worthy URL skipped because its fetch
\* returned none, and a URL skipped because it was not fetch-worthy
C16_Witness ==
    /\ ppc = "P_DONE"
    /\ Len(pl_candidates) = 3
    /\ Len(results.fetched_urls) = 1
    /\ Len(results.skipped_urls) = 2
    /\ \E i \in 1..3 :
           /\ FetchWorthy(pl_candidates[i], domain)
           /\ Occurrences(results.skipped_urls, pl_candidates[i].url) = 1
    /\ \E i \in 1..3 :
           /\ ~FetchWorthy(pl_candidates[i], domain)
           /\ Occurrences(results.skipped_urls, pl_candidates[i].url) = 1
    /\ results.skipped_urls[1] = pl_candidates[1].url

(***************************************************************************)
(* Specification SpecBoth: _run_pipeline and then run_company_intelligence *)
(* on the same bare domain, with the same search and fetch collaborators.  *)
(***************************************************************************)
BareDomainPool == {AcmeIo, WwwAcmeIo}

\* fetch_page is a function of the URL: two calls with the same URL have
\* returned the same
SameFetch(log) ==
    \A i, j \in 1..Len(log) :
        (log[i].url = log[j].url /\ log[i].returned /\ log[j].returned) =>
            log[i].html = log[j].html

\* the page a call of fetch_page with this URL has returned before, if any
EarlierPages(log, url) ==
    {log[i].html : i \in {k \in 1..Len(log) : log[k].url = url /\ log[k].returned}}

\* the page the waiting fetch loop is returned is the page an earlier call with
\* the same URL was returned
SamePage ==
    LET earlier == EarlierPages(fetch_log, fetch_candidates[fetch_idx].url)
    IN  IF earlier # {} THEN page' \in earlier ELSE TRUE

\* the searches are a function of the query: run_company_intelligence, asking
\* the queries _run_pipeline asked, is returned the same results
SameSearch ==
    IF queries' = queries THEN all_candidates' = all_candidates ELSE TRUE

InitBoth ==
    /\ pc = "INIT"
    /\ ppc = "P_INIT"
    /\ domain \in BareDomainPool
    /\ company_name = ""
    /\ fetch_log = <<>>
    /\ queries = Unused
    /\ pl_candidates = Unused /\ cand_idx = Unused /\ results = Unused
    /\ company_domain = Unused
    /\ all_candidates = Unused /\ candidates = Unused
    /\ fetch_candidates = Unused /\ fetch_idx = Unused /\ all_contacts = Unused
    /\ merged_contacts = Unused /\ accepted_contacts = Unused /\ result = Unused
    /\ page = Unused /\ page_contacts = Unused
    /\ contacts = Unused /\ merged = Unused /\ unique_contacts = Unused
    /\ remerged = Unused
    /\ candidate = Unused /\ score = Unused /\ fetch_ok = Unused
    /\ contact = Unused /\ evidence_urls = Unused

\* the second run starts when the first has returned
NextBoth ==
    \/ PipelineStart
    \/ PipelineDiscover
    \/ PipelineCandidate
    \/ PipelineMerge
    \/ PipelineScore
    \/ ppc = "P_DONE" /\ Initialize
    \/ /\ ppc = "P_DONE" /\ pc = "DISCOVER"
       /\ queries' = generate_search_queries(company_domain, company_name)
       /\ SameSearch
       /\ Discover
    \/ ppc = "P_DONE" /\ Filter
    \/ ppc = "P_DONE" /\ ProcessCandidateFetch
    \/ /\ ppc = "P_DONE" /\ pc = "FETCH_EXTRACT" /\ Awaiting(fetch_log)
       /\ SamePage
       /\ ProcessCandidate
       /\ SameFetch(fetch_log')
    \/ ppc = "P_DONE" /\ EndFetch
    \/ ppc = "P_DONE" /\ Merge
    \/ ppc = "P_DONE" /\ Score
    \/ ppc = "P_DONE" /\ NameResolve /\ SameFetch(fetch_log')

SpecBoth == InitBoth /\ [][NextBoth]_vars

\* the position in the candidate list cs of the candidate with this URL
IndexOfUrl(cs, url) == CHOOSE i \in 1..Len(cs) : cs[i].url = url

\* every call is for a fetch-worthy candidate of cs, and the calls of the fetch
\* loop are made in the order of cs, which is non-increasing in score
FetchedOnlyWorthyInOrder(calls, cs, target) ==
    /\ \A k \in 1..Len(calls) :
           \E i \in 1..Len(cs) :
               cs[i].url = calls[k].url /\ FetchWorthy(cs[i], target)
    /\ \A k, l \in 1..Len(calls) :
           (k < l /\ calls[k].stage = calls[l].stage) =>
               /\ IndexOfUrl(cs, calls[k].url) < IndexOfUrl(cs, calls[l].url)
               /\ cs[IndexOfUrl(cs, calls[k].url)].relevance_score
                     >= cs[IndexOfUrl(cs, calls[l].url)].relevance_score

\* C15: in every run of run_company_intelligence and of _run_pipeline a candidate
\* URL is passed to fetch_page only if it is fetch-worthy (relevance_score >= 40
\* and host matching the target domain), and the candidates are fetched in the
\* score-descending order of the discovery list.
C15_OnlyFetchWorthyFetched ==
    /\ pc \in {"FETCH_EXTRACT", "MERGE", "SCORE", "NAME_RESOLVE", "DONE"} =>
           FetchedOnlyWorthyInOrder(SelectSeq(fetch_log, LAMBDA c : c.js_render),
                                    candidates, company_domain)
    /\ ppc \in {"P_LOOP", "P_SCORE", "P_DONE"} =>
           FetchedOnlyWorthyInOrder(SelectSeq(fetch_log, LAMBDA c : ~c.js_render),
                                    pl_candidates, domain)

\* both runs are over; each discovered three candidates, fetched two of them and
\* passed over one that was not fetch-worthy
C15_Witness ==
    /\ pc = "DONE" /\ ppc = "P_DONE"
    /\ Len(candidates) = 3 /\ Len(pl_candidates) = 3
    /\ Len(SelectSeq(fetch_log, LAMBDA c : c.stage = "FETCH_EXTRACT")) = 2
    /\ Len(SelectSeq(fetch_log, LAMBDA c : c.stage = "P_LOOP")) = 2
    /\ \E i \in 1..3 : ~FetchWorthy(candidates[i], company_domain)

====
